---- MODULE Spec2Model ----
(***************************************************************************)
(* A model of migrate.py, the Shippable -> Azure Pipelines migration tool. *)
(*                                                                         *)
(* A Python str is a sequence of one-character strings, so that split,     *)
(* join, replace, lower, slicing, "in" and int()/float() are computed      *)
(* character by character as the code computes them.  An Optional value    *)
(* is a sequence of length 0 (None) or 1 (the value), so that None and     *)
(* the empty str stay different, as they are in the code.                  *)
(***************************************************************************)
EXTENDS Integers, Sequences, FiniteSets, TLC

(***************************************************************************)
(* Bounds of the model.                                                    *)
(***************************************************************************)
\* The longest matrix drawn from EntryPool (longer matrices are not explored).
MaxEntries == 3

(***************************************************************************)
(* Python built-ins used by the code.                                      *)
(***************************************************************************)
None == <<>>
Some(x) == <<x>>

\* bool(x) of an Optional[str]: None and '' are both false.
Truthy(opt) == opt # None /\ opt[1] # <<>>

\* s[n:] for n >= 0 (an offset past the end gives '').
SliceFrom(s, n) == IF n >= Len(s) THEN <<>> ELSE SubSeq(s, n + 1, Len(s))

\* seq[0:i]
Take(s, i) == IF i >= Len(s) THEN s ELSE SubSeq(s, 1, i)

StartsWith(s, p) == Len(p) <= Len(s) /\ SubSeq(s, 1, Len(p)) = p

\* c in s, for a one-character c
Contains(s, c) == \E i \in 1..Len(s) : s[i] = c

\* s.split(sep) for a one-character sep: ''.split('/') is [''].
RECURSIVE SplitFrom(_, _, _)
SplitFrom(s, sep, cur) ==
    IF s = <<>> THEN <<cur>>
    ELSE IF Head(s) = sep THEN <<cur>> \o SplitFrom(Tail(s), sep, <<>>)
    ELSE SplitFrom(Tail(s), sep, Append(cur, Head(s)))

Split(s, sep) == SplitFrom(s, sep, <<>>)

\* sep.join(parts) for a one-character sep
RECURSIVE Join(_, _)
Join(parts, sep) ==
    IF parts = <<>> THEN <<>>
    ELSE IF Len(parts) = 1 THEN parts[1]
    ELSE parts[1] \o <<sep>> \o Join(Tail(parts), sep)

\* s.replace(old, new), old not empty: every occurrence, left to right.
RECURSIVE Replace(_, _, _)
Replace(s, old, new) ==
    IF s = <<>> THEN <<>>
    ELSE IF StartsWith(s, old) THEN new \o Replace(SliceFrom(s, Len(old)), old, new)
    ELSE <<Head(s)>> \o Replace(Tail(s), old, new)

UpperCase == <<"A","B","C","D","E","F","G","H","I","J","K","L","M","N","O","P","Q","R","S","T","U","V","W","X","Y","Z">>
LowerCase == <<"a","b","c","d","e","f","g","h","i","j","k","l","m","n","o","p","q","r","s","t","u","v","w","x","y","z">>

LowerChar(c) ==
    IF \E i \in 1..Len(UpperCase) : UpperCase[i] = c
    THEN LowerCase[CHOOSE i \in 1..Len(UpperCase) : UpperCase[i] = c]
    ELSE c

\* s.lower()
Lower(s) == [i \in 1..Len(s) |-> LowerChar(s[i])]

\* The characters of the model in code-point order; sorted() compares by it.
CodePoints == <<" ","+","-",".","/","0","1","2","3","4","5","6","7","8","9","=","A","B","C","D","E","F","G","H","I","J","K","L","M","N","O","P","Q","R","S","T","U","V","W","X","Y","Z","_","a","b","c","d","e","f","g","h","i","j","k","l","m","n","o","p","q","r","s","t","u","v","w","x","y","z">>

Ord(c) == CHOOSE i \in 1..Len(CodePoints) : CodePoints[i] = c

\* a < b for two str
RECURSIVE StrLess(_, _)
StrLess(a, b) ==
    IF b = <<>> THEN FALSE
    ELSE IF a = <<>> THEN TRUE
    ELSE IF Head(a) = Head(b) THEN StrLess(Tail(a), Tail(b))
    ELSE Ord(Head(a)) < Ord(Head(b))

\* sorted(values) of a set of str
RECURSIVE Sorted(_)
Sorted(S) ==
    IF S = {} THEN <<>>
    ELSE LET m == CHOOSE x \in S : \A y \in S \ {x} : StrLess(x, y)
         IN <<m>> \o Sorted(S \ {m})

(***************************************************************************)
(* The lookup tables.                                                      *)
(***************************************************************************)
\* test_types: script name -> <<stage label, job label>>
test_types ==
    (<<"s","a","n","i","t","y">> :> <<<<"S","a","n","i","t","y">>, <<"T","e","s","t">>>>) @@
    (<<"u","n","i","t","s">> :> <<<<"U","n","i","t","s">>, <<"P","y","t","h","o","n">>>>) @@
    (<<"w","i","n","d","o","w","s">> :> <<<<"W","i","n","d","o","w","s">>, <<"S","e","r","v","e","r">>>>) @@
    (<<"o","s","x">> :> <<<<"R","e","m","o","t","e">>, <<"O","S"," ","X">>>>) @@
    (<<"m","a","c","o","s">> :> <<<<"R","e","m","o","t","e">>, <<"m","a","c","O","S">>>>) @@
    (<<"r","h","e","l">> :> <<<<"R","e","m","o","t","e">>, <<"R","H","E","L">>>>) @@
    (<<"f","r","e","e","b","s","d">> :> <<<<"R","e","m","o","t","e">>, <<"F","r","e","e","B","S","D">>>>) @@
    (<<"l","i","n","u","x">> :> <<<<"D","o","c","k","e","r">>, <<>>>>) @@
    (<<"f","a","l","l","a","x","y">> :> <<<<"F","a","l","l","a","x","y">>, <<"P","y","t","h","o","n">>>>) @@
    (<<"g","a","l","a","x","y">> :> <<<<"G","a","l","a","x","y">>, <<"P","y","t","h","o","n">>>>) @@
    (<<"g","e","n","e","r","i","c">> :> <<<<"G","e","n","e","r","i","c">>, <<"P","y","t","h","o","n">>>>) @@
    (<<"n","e","t","w","o","r","k">> :> <<<<"N","e","t","w","o","r","k">>, <<"P","y","t","h","o","n">>>>) @@
    (<<"a","w","s">> :> <<<<"A","W","S">>, <<"P","y","t","h","o","n">>>>) @@
    (<<"v","c","e","n","t","e","r">> :> <<<<"v","C","e","n","t","e","r">>, <<"P","y","t","h","o","n">>>>) @@
    (<<"c","s">> :> <<<<"C","l","o","u","d","S","t","a","c","k">>, <<"P","y","t","h","o","n">>>>) @@
    (<<"t","o","w","e","r">> :> <<<<"T","o","w","e","r">>, <<"P","y","t","h","o","n">>>>) @@
    (<<"c","l","o","u","d">> :> <<<<"C","l","o","u","d">>, <<"P","y","t","h","o","n">>>>) @@
    (<<"h","c","l","o","u","d">> :> <<<<"H","e","t","z","n","e","r">>, <<"P","y","t","h","o","n">>>>) @@
    (<<"i","o","s">> :> <<<<"I","O","S">>, <<"P","y","t","h","o","n">>>>) @@
    (<<"v","y","o","s">> :> <<<<"V","y","O","S">>, <<"P","y","t","h","o","n">>>>) @@
    (<<"a","z","u","r","e">> :> <<<<"A","z","u","r","e">>, <<"P","y","t","h","o","n">>>>)

\* docker_types: container short name -> <<job label, version>>
docker_types ==
    (<<"a","l","p","i","n","e","3">> :> <<<<"A","l","p","i","n","e">>, <<"3">>>>) @@
    (<<"c","e","n","t","o","s","6">> :> <<<<"C","e","n","t","O","S">>, <<"6">>>>) @@
    (<<"c","e","n","t","o","s","7">> :> <<<<"C","e","n","t","O","S">>, <<"7">>>>) @@
    (<<"c","e","n","t","o","s","8">> :> <<<<"C","e","n","t","O","S">>, <<"8">>>>) @@
    (<<"f","e","d","o","r","a","2","9">> :> <<<<"F","e","d","o","r","a">>, <<"2","9">>>>) @@
    (<<"f","e","d","o","r","a","3","0">> :> <<<<"F","e","d","o","r","a">>, <<"3","0">>>>) @@
    (<<"f","e","d","o","r","a","3","1">> :> <<<<"F","e","d","o","r","a">>, <<"3","1">>>>) @@
    (<<"f","e","d","o","r","a","3","2">> :> <<<<"F","e","d","o","r","a">>, <<"3","2">>>>) @@
    (<<"u","b","u","n","t","u","1","6","0","4">> :> <<<<"U","b","u","n","t","u">>, <<"1","6",".","0","4">>>>) @@
    (<<"u","b","u","n","t","u","1","8","0","4">> :> <<<<"U","b","u","n","t","u">>, <<"1","8",".","0","4">>>>) @@
    (<<"o","p","e","n","s","u","s","e","1","5">> :> <<<<"o","p","e","n","S","U","S","E">>, <<"1","5">>>>) @@
    (<<"o","p","e","n","s","u","s","e","1","5","p","y","2">> :> <<<<"o","p","e","n","S","U","S","E">>, <<"1","5"," ","p","y","2">>>>)

split_incidental == {<<"D","o","c","k","e","r">>, <<"R","e","m","o","t","e">>, <<"W","i","n","d","o","w","s">>}

ansible_branches == {<<"d","e","v","e","l">>, <<"s","t","a","b","l","e","-","2",".","1","0">>, <<"s","t","a","b","l","e","-","2",".","9">>, <<"2",".","1","0">>, <<"2",".","9">>}

(***************************************************************************)
(* TestConfig: a record [stage_label, job_label, type, platform, version,  *)
(* group, incidental, branch_prefix, branch_kvp]; platform, version,       *)
(* group and branch_prefix are Optional[str], branch_kvp an Optional       *)
(* <<key, value>>.                                                         *)
(***************************************************************************)
branch_name(c) ==
    LET branch == IF Truthy(c.branch_prefix) THEN c.branch_prefix
                  ELSE IF c.branch_kvp # None THEN Some(c.branch_kvp[1][2])
                  ELSE None
    IN IF Truthy(branch) THEN Some(Replace(branch[1], <<"s","t","a","b","l","e","-">>, <<>>)) ELSE branch

\* The mutant of stage_name for C6: every incidental entry keeps its stage
\* label and branch after "Incidental ".
stage_name_split(c) ==
    LET named == IF Truthy(branch_name(c))
                 THEN c.stage_label \o <<" ">> \o branch_name(c)[1]
                 ELSE c.stage_label
    IN IF c.incidental THEN <<"I","n","c","i","d","e","n","t","a","l"," ">> \o named ELSE named

\* The mutant of stage_name for C14: an incidental entry that is not split
\* off goes to the stage of its label.
stage_name_unmarked(c) ==
    LET named == IF Truthy(branch_name(c))
                 THEN c.stage_label \o <<" ">> \o branch_name(c)[1]
                 ELSE c.stage_label
    IN IF c.incidental /\ c.stage_label \in split_incidental
       THEN <<"I","n","c","i","d","e","n","t","a","l"," ">> \o named
       ELSE named

stage_name(c) ==
    LET named == IF Truthy(branch_name(c))
                 THEN c.stage_label \o <<" ">> \o branch_name(c)[1]
                 ELSE c.stage_label
    IN IF c.incidental
       THEN IF c.stage_label \in split_incidental
            THEN <<"I","n","c","i","d","e","n","t","a","l"," ">> \o named
            ELSE <<"I","n","c","i","d","e","n","t","a","l">>
       ELSE named

name_components(c) ==
    LET parts == IF c.incidental /\ c.stage_label \notin split_incidental
                 THEN <<c.stage_label, c.job_label>>
                 ELSE <<c.job_label>>
    IN IF Truthy(c.version)
       THEN IF c.type = <<"l","i","n","u","x">> /\ c.job_label = <<"o","p","e","n","S","U","S","E">> /\ c.version[1] = <<"1","5">>
            THEN Append(parts, <<"1","5"," ","p","y","3">>)
            ELSE Append(parts, c.version[1])
       ELSE parts

\* version.replace(' ', '').replace('.', '')
normalize(version) == Replace(Replace(version, <<" ">>, <<>>), <<".">>, <<>>)

\* [part for part in parts if part is not None]
RECURSIVE NotNone(_)
NotNone(parts) ==
    IF parts = <<>> THEN <<>>
    ELSE (IF Head(parts) = None THEN <<>> ELSE <<Head(parts)[1]>>) \o NotNone(Tail(parts))

\* For type linux the code evaluates platform + version.replace(...), which
\* raises when either is None; get_test_config never builds such a config.
test_components(c) ==
    LET parts == IF c.type = <<"l","i","n","u","x">>
                 THEN <<c.type, c.platform[1] \o normalize(c.version[1])>>
                 ELSE NotNone(<<Some(c.type), c.platform, c.version>>)
        inc == IF c.incidental THEN <<<<"i">>>> \o parts ELSE parts
    IN IF Truthy(c.branch_prefix) THEN <<c.branch_prefix[1]>> \o inc ELSE inc

test(c) ==
    LET parts == IF Truthy(c.group)
                 THEN Append(test_components(c), c.group[1])
                 ELSE test_components(c)
    IN Join(parts, "/")

(***************************************************************************)
(* parse_shippable_matrix: one iteration of its loop.  A dict is a         *)
(* sequence of <<key, value>> pairs with distinct keys, in insertion       *)
(* order (the order dict.items() gives).                                   *)
(***************************************************************************)
DictHas(d, k) == \E i \in 1..Len(d) : d[i][1] = k

DictGet(d, k) == d[CHOOSE i \in 1..Len(d) : d[i][1] = k][2]

\* d[k] = v: a key already present keeps its place and takes the new value.
DictSet(d, k, v) ==
    IF DictHas(d, k)
    THEN [i \in 1..Len(d) |-> IF d[i][1] = k THEN <<k, v>> ELSE d[i]]
    ELSE Append(d, <<k, v>>)

\* d.pop(k), k present
RECURSIVE DictPop(_, _)
DictPop(d, k) ==
    IF d = <<>> THEN <<>>
    ELSE IF Head(d)[1] = k THEN Tail(d)
    ELSE <<Head(d)>> \o DictPop(Tail(d), k)

\* dict(pairs): later pairs overwrite earlier ones.
RECURSIVE DictOf(_, _)
DictOf(pairs, d) ==
    IF pairs = <<>> THEN d
    ELSE DictOf(Tail(pairs), DictSet(d, Head(pairs)[1], Head(pairs)[2]))

\* s.split(sep, 1): cut at the first sep only.
RECURSIVE SplitFirst(_, _, _)
SplitFirst(s, sep, cur) ==
    IF s = <<>> THEN <<cur>>
    ELSE IF Head(s) = sep THEN <<cur, Tail(s)>>
    ELSE SplitFirst(Tail(s), sep, Append(cur, Head(s)))

\* The mutant of split_tokens for C8: kvp.split('=', 1).
split_tokens_first(raw) ==
    LET tokens == Split(raw, " ")
    IN [i \in 1..Len(tokens) |-> SplitFirst(tokens[i], "=", <<>>)]

\* kvp.split('=') for kvp in raw.split(' ')
split_tokens(raw) ==
    LET tokens == Split(raw, " ")
    IN [i \in 1..Len(tokens) |-> Split(tokens[i], "=")]

NoItem == [raw |-> <<>>, test |-> <<>>, values |-> <<>>, parts |-> <<>>]

\* dict() raises ValueError on an element that is not a pair, values.pop('T')
\* raises KeyError without a T key.
parse_item(raw) ==
    LET pairs == split_tokens(raw)
    IN IF \E i \in 1..Len(pairs) : Len(pairs[i]) # 2
       THEN [err |-> "ValueError", item |-> NoItem]
       ELSE LET values == DictOf(pairs, <<>>)
            IN IF ~DictHas(values, <<"T">>)
               THEN [err |-> "KeyError", item |-> NoItem]
               ELSE [err |-> "ok",
                     item |-> [raw |-> raw,
                               test |-> DictGet(values, <<"T">>),
                               values |-> DictPop(values, <<"T">>),
                               parts |-> Split(DictGet(values, <<"T">>), "/")]]

(***************************************************************************)
(* get_test_config                                                         *)
(***************************************************************************)
NoFields == [err |-> "ok", platform |-> None, version |-> None, group |-> None]

\* The mutant of arity_decode for C9: a single segment is always the version.
arity_decode_version(job_label, parts) ==
    IF Len(parts) = 0 THEN NoFields
    ELSE IF Len(parts) = 1
    THEN [NoFields EXCEPT !.version = Some(parts[1])]
    ELSE IF Len(parts) = 2
    THEN [NoFields EXCEPT !.version = Some(parts[1]), !.group = Some(parts[2])]
    ELSE IF Len(parts) = 3
    THEN [NoFields EXCEPT !.platform = Some(parts[1]), !.version = Some(parts[2]),
                          !.group = Some(parts[3])]
    ELSE [NoFields EXCEPT !.err = "UnhandledArity"]

\* The arity-dependent decode of the segments after the type token.
arity_decode(job_label, parts) ==
    IF Len(parts) = 0 THEN NoFields
    ELSE IF Len(parts) = 1
    THEN IF job_label = <<"P","y","t","h","o","n">>
         THEN IF Contains(parts[1], ".")
              THEN [NoFields EXCEPT !.version = Some(parts[1])]
              ELSE [NoFields EXCEPT !.group = Some(parts[1])]
         ELSE [NoFields EXCEPT !.version = Some(parts[1])]
    ELSE IF Len(parts) = 2
    THEN [NoFields EXCEPT !.version = Some(parts[1]), !.group = Some(parts[2])]
    ELSE IF Len(parts) = 3
    THEN [NoFields EXCEPT !.platform = Some(parts[1]), !.version = Some(parts[2]),
                          !.group = Some(parts[3])]
    ELSE [NoFields EXCEPT !.err = "UnhandledArity"]

\* The mutant of docker_resolve for C10: the alias is looked up without the
\* check of platform and version, and a missing version is no alias.
docker_resolve_unchecked(job_label, f) ==
    IF f.version = None \/ f.version[1] \notin DOMAIN docker_types
    THEN [err |-> "UnknownDockerAlias", job_label |-> job_label, fields |-> f]
    ELSE LET docker_type == docker_types[f.version[1]]
         IN [err |-> "ok",
             job_label |-> docker_type[1],
             fields |-> [f EXCEPT !.platform = Some(Lower(docker_type[1])),
                                  !.version = Some(docker_type[2])]]

\* The docker alias resolution of type linux; f is what arity_decode gave.
docker_resolve(job_label, f) ==
    IF Truthy(f.platform) \/ ~Truthy(f.version)
    THEN [err |-> "UnexpectedParameters", job_label |-> job_label, fields |-> f]
    ELSE IF f.version[1] \notin DOMAIN docker_types
    THEN [err |-> "UnknownDockerAlias", job_label |-> job_label, fields |-> f]
    ELSE LET docker_type == docker_types[f.version[1]]
         IN [err |-> "ok",
             job_label |-> docker_type[1],
             fields |-> [f EXCEPT !.platform = Some(Lower(docker_type[1])),
                                  !.version = Some(docker_type[2])]]

NoConfig == None

get_test_config(test_type, parts, incidental, branch_prefix, branch_kvp) ==
    IF test_type \notin DOMAIN test_types
    THEN [err |-> "UnknownTestType", cfg |-> NoConfig]
    ELSE LET stage_label == test_types[test_type][1]
             f == arity_decode(test_types[test_type][2], parts)
         IN IF f.err # "ok"
            THEN [err |-> f.err, cfg |-> NoConfig]
            ELSE LET r == IF test_type = <<"l","i","n","u","x">>
                          THEN docker_resolve(test_types[test_type][2], f)
                          ELSE [err |-> "ok", job_label |-> test_types[test_type][2],
                                fields |-> f]
                 IN IF r.err # "ok"
                    THEN [err |-> r.err, cfg |-> NoConfig]
                    ELSE [err |-> "ok",
                          cfg |-> Some([stage_label |-> stage_label,
                                        job_label |-> r.job_label,
                                        type |-> test_type,
                                        platform |-> r.fields.platform,
                                        version |-> r.fields.version,
                                        group |-> r.fields.group,
                                        incidental |-> incidental,
                                        branch_prefix |-> branch_prefix,
                                        branch_kvp |-> branch_kvp])]

(***************************************************************************)
(* classify_matrix_item                                                    *)
(***************************************************************************)
\* The mutant of resolve_branch for C11: the leftover mapping is searched for
\* a branch value whether or not the path starts with a branch name.
resolve_branch_both(item) ==
    LET prefixed == item.parts[1] \in ansible_branches
        found == \E i \in 1..Len(item.values) : item.values[i][2] \in ansible_branches
        at == CHOOSE j \in 0..Len(item.values) :
                IF found
                THEN /\ j > 0
                     /\ item.values[j][2] \in ansible_branches
                     /\ \A k \in 1..(j - 1) : item.values[k][2] \notin ansible_branches
                ELSE j = 0
    IN [branch_prefix |-> IF prefixed THEN Some(item.parts[1]) ELSE None,
        branch_kvp |-> IF found THEN Some(item.values[at]) ELSE None,
        parts |-> IF prefixed THEN Tail(item.parts) ELSE item.parts,
        values |-> IF found THEN DictPop(item.values, item.values[at][1])
                   ELSE item.values]

\* Branch resolution: the leading path segment, or else the first value of
\* the leftover mapping that is a branch name (its pair is removed).
resolve_branch(item) ==
    IF item.parts[1] \in ansible_branches
    THEN [branch_prefix |-> Some(item.parts[1]), branch_kvp |-> None,
          parts |-> Tail(item.parts), values |-> item.values]
    ELSE IF \E i \in 1..Len(item.values) : item.values[i][2] \in ansible_branches
    THEN LET i == CHOOSE j \in 1..Len(item.values) :
                    /\ item.values[j][2] \in ansible_branches
                    /\ \A k \in 1..(j - 1) : item.values[k][2] \notin ansible_branches
         IN [branch_prefix |-> None, branch_kvp |-> Some(item.values[i]),
             parts |-> item.parts, values |-> DictPop(item.values, item.values[i][1])]
    ELSE [branch_prefix |-> None, branch_kvp |-> None,
          parts |-> item.parts, values |-> item.values]

\* The mutant of roundtrip_ok for C1: the verification left out.
roundtrip_unchecked(item, cfg) == TRUE

\* matrix_item.test != test_config.test raises.
roundtrip_ok(item, cfg) == item.test = test(cfg)

\* The arguments classify_matrix_item passes to get_test_config, or the
\* error raised before the call (parts[0] of an empty list is an IndexError).
classify_args(item) ==
    LET b == resolve_branch(item)
    IN IF b.values # <<>>
       THEN [err |-> "UnrecognizedEnvKey", b |-> b, incidental |-> FALSE,
             test_type |-> <<>>, parts |-> <<>>]
       ELSE IF b.parts = <<>>
       THEN [err |-> "IndexError", b |-> b, incidental |-> FALSE,
             test_type |-> <<>>, parts |-> <<>>]
       ELSE LET incidental == b.parts[1] = <<"i">>
                parts == IF incidental THEN Tail(b.parts) ELSE b.parts
            IN IF parts = <<>>
               THEN [err |-> "IndexError", b |-> b, incidental |-> incidental,
                     test_type |-> <<>>, parts |-> <<>>]
               ELSE [err |-> "ok", b |-> b, incidental |-> incidental,
                     test_type |-> Head(parts), parts |-> Tail(parts)]

\* script_exists is os.path.exists(script_path), decided outside the program.
classify_matrix_item(item, script_exists) ==
    LET a == classify_args(item)
    IN IF a.err # "ok"
       THEN [err |-> a.err, cfg |-> NoConfig]
       ELSE LET r == get_test_config(a.test_type, a.parts, a.incidental,
                                     a.b.branch_prefix, a.b.branch_kvp)
            IN IF r.err # "ok" THEN r
               ELSE IF ~roundtrip_ok(item, r.cfg[1])
               THEN [err |-> "ReconstructionMismatch", cfg |-> NoConfig]
               ELSE IF ~script_exists
               THEN [err |-> "MissingScript", cfg |-> NoConfig]
               ELSE r

(***************************************************************************)
(* clean_value: int(value), else float(value), else the str itself.        *)
(* An emitted value is [kind, neg, mant, scale, special, str]: an int is   *)
(* mant (scale 0), a float is mant / 10^scale with no trailing zero in     *)
(* the fraction, or one of inf/nan (special).  Both int() and float()      *)
(* strip surrounding blanks and accept a sign and single underscores       *)
(* between digits.  The exponent spelling of a float (1e5) is not          *)
(* modelled: no str of the model holds a digit followed by e.              *)
(***************************************************************************)
Digits == <<"0","1","2","3","4","5","6","7","8","9">>

IsDigit(c) == \E i \in 1..Len(Digits) : Digits[i] = c

DigitValue(c) == (CHOOSE i \in 1..Len(Digits) : Digits[i] = c) - 1

\* value.strip(), for blanks
RECURSIVE Strip(_)
Strip(s) ==
    IF s = <<>> THEN s
    ELSE IF Head(s) = " " THEN Strip(Tail(s))
    ELSE IF s[Len(s)] = " " THEN Strip(SubSeq(s, 1, Len(s) - 1))
    ELSE s

\* digit ('_'? digit)*
RECURSIVE IsDigitRun(_)
IsDigitRun(s) ==
    /\ s # <<>>
    /\ IsDigit(Head(s))
    /\ \/ Len(s) = 1
       \/ IsDigitRun(Tail(s))
       \/ Len(s) >= 3 /\ s[2] = "_" /\ IsDigitRun(SubSeq(s, 3, Len(s)))

RECURSIVE NatOf(_, _)
NatOf(s, acc) ==
    IF s = <<>> THEN acc
    ELSE IF Head(s) = "_" THEN NatOf(Tail(s), acc)
    ELSE NatOf(Tail(s), 10 * acc + DigitValue(Head(s)))

RECURSIVE CountDigits(_)
CountDigits(s) ==
    IF s = <<>> THEN 0
    ELSE (IF Head(s) = "_" THEN 0 ELSE 1) + CountDigits(Tail(s))

RECURSIVE Pow10(_)
Pow10(n) == IF n = 0 THEN 1 ELSE 10 * Pow10(n - 1)

Signed(s) == s # <<>> /\ Head(s) \in {"+", "-"}

Unsigned(s) == IF Signed(s) THEN Tail(s) ELSE s

IsInt(value) == IsDigitRun(Unsigned(Strip(value)))

\* The split of an unsigned float spelling at its '.', None when it has none.
DotAt(s) == IF Contains(s, ".") THEN CHOOSE i \in 1..Len(s) : s[i] = "." /\ \A j \in 1..(i - 1) : s[j] # "." ELSE 0

IntDigits(s) == IF DotAt(s) = 0 THEN s ELSE SubSeq(s, 1, DotAt(s) - 1)

FracDigits(s) == IF DotAt(s) = 0 THEN <<>> ELSE SubSeq(s, DotAt(s) + 1, Len(s))

IsDecimal(s) ==
    /\ IntDigits(s) = <<>> \/ IsDigitRun(IntDigits(s))
    /\ FracDigits(s) = <<>> \/ IsDigitRun(FracDigits(s))
    /\ IntDigits(s) # <<>> \/ FracDigits(s) # <<>>

SpecialFloats == {<<"i","n","f">>, <<"i","n","f","i","n","i","t","y">>, <<"n","a","n">>}

IsFloat(value) ==
    \/ IsDecimal(Unsigned(Strip(value)))
    \/ Lower(Unsigned(Strip(value))) \in SpecialFloats

RECURSIVE Reduce(_, _)
Reduce(mant, scale) ==
    IF scale > 0 /\ mant % 10 = 0 THEN Reduce(mant \div 10, scale - 1)
    ELSE <<mant, scale>>

IntValue(value) ==
    LET s == Strip(value)
        m == NatOf(Unsigned(s), 0)
    IN [kind |-> "int", neg |-> (Signed(s) /\ Head(s) = "-" /\ m > 0), mant |-> m,
        scale |-> 0, special |-> <<>>, str |-> <<>>]

FloatValue(value) ==
    LET s == Strip(value)
        u == Unsigned(s)
        neg == Signed(s) /\ Head(s) = "-"
    IN IF Lower(u) \in SpecialFloats
       THEN [kind |-> "float", neg |-> neg, mant |-> 0, scale |-> 0,
             special |-> (IF Lower(u) = <<"n","a","n">> THEN <<"n","a","n">> ELSE <<"i","n","f">>), str |-> <<>>]
       ELSE LET r == Reduce(NatOf(IntDigits(u) \o FracDigits(u), 0),
                            CountDigits(FracDigits(u)))
            IN [kind |-> "float", neg |-> neg, mant |-> r[1], scale |-> r[2],
                special |-> <<>>, str |-> <<>>]

StrValue(value) ==
    [kind |-> "str", neg |-> FALSE, mant |-> 0, scale |-> 0, special |-> <<>>,
     str |-> value]

\* clean_value without the coercion; with it in place of clean_value the
\* formula of C3 holds.
clean_value_str(value) == StrValue(value)

clean_value(value) ==
    IF IsInt(value) THEN IntValue(value)
    ELSE IF IsFloat(value) THEN FloatValue(value)
    ELSE StrValue(value)

\* clean_values: [clean_value(value) for value in sorted(values)]
clean_values(values) ==
    LET sorted == Sorted(values)
    IN [i \in 1..Len(sorted) |-> clean_value(sorted[i])]

\* a == b of two emitted values: 7 == 7.0, '7' != 7, nan != nan.
EmittedEq(a, b) ==
    IF a.kind = "str" \/ b.kind = "str"
    THEN a.kind = b.kind /\ a.str = b.str
    ELSE /\ a.special # <<"n","a","n">> /\ b.special # <<"n","a","n">>
         /\ a.special = b.special
         /\ a.mant = b.mant /\ a.scale = b.scale
         /\ (a.neg = b.neg \/ (a.mant = 0 /\ a.special = <<>>))

RECURSIVE NatStr(_)
NatStr(n) ==
    IF n < 10 THEN <<Digits[n + 1]>>
    ELSE NatStr(n \div 10) \o <<Digits[(n % 10) + 1]>>

\* n as exactly w digits (w > 0), zero-filled on the left
RECURSIVE FixedStr(_, _)
FixedStr(n, w) ==
    IF w = 1 THEN <<Digits[(n % 10) + 1]>>
    ELSE FixedStr(n \div 10, w - 1) \o <<Digits[(n % 10) + 1]>>

\* The text of an emitted value in the written YAML document, which is the
\* text substituted for {0} of a format: 7 for the int 7, 3.1 for the float
\* 3.1, 7.0 for the float 7.0, .inf and .nan, and a str as it is.
Rendered(v) ==
    IF v.kind = "str" THEN v.str
    ELSE (IF v.neg THEN <<"-">> ELSE <<>>) \o
         (IF v.special # <<>> THEN <<".">> \o v.special
          ELSE IF v.kind = "int" THEN NatStr(v.mant)
          ELSE IF v.scale = 0 THEN NatStr(v.mant) \o <<".","0">>
          ELSE NatStr(v.mant \div Pow10(v.scale)) \o <<".">> \o
               FixedStr(v.mant % Pow10(v.scale), v.scale))

(***************************************************************************)
(* Stage and generate_stages.  A Stage is [name, incidental, targets,      *)
(* configs, groups]; targets is the dict name -> Target in insertion       *)
(* order, as a sequence of [name, type]; stages is the dict of the stages  *)
(* in insertion order, as a sequence.                                      *)
(***************************************************************************)
target_count(stage) == Len(stage.targets)

\* len(self.groups) or 1
group_count(stage) == IF Cardinality(stage.groups) = 0 THEN 1 ELSE Cardinality(stage.groups)

job_count(stage) == target_count(stage) * group_count(stage)

StageIndex(stages, name) ==
    IF \E i \in 1..Len(stages) : stages[i].name = name
    THEN CHOOSE i \in 1..Len(stages) : stages[i].name = name
    ELSE 0

TargetIndex(targets, name) ==
    IF \E i \in 1..Len(targets) : targets[i].name = name
    THEN CHOOSE i \in 1..Len(targets) : targets[i].name = name
    ELSE 0

\* The mutant of target_conflict for C4: a target name met again is taken
\* as the same target without comparing the paths.
target_conflict_unchecked(target, test_type) == FALSE

\* target.type != test_type
target_conflict(target, test_type) == target.type # test_type

\* The mutants of setdefault for C7: a new key goes to the front of the dict.
setdefault_front(d, name, value) ==
    IF \E i \in 1..Len(d) : d[i].name = name THEN d ELSE <<value>> \o d

\* d.setdefault(name, value): a new key goes to the end of the dict.
setdefault(d, name, value) ==
    IF \E i \in 1..Len(d) : d[i].name = name THEN d ELSE Append(d, value)

\* One iteration of the loop over classified_matrix.
fold_item(stages, item) ==
    LET name == stage_name(item)
        with_stage == setdefault(stages, name,
                                 [name |-> name, incidental |-> item.incidental,
                                  targets |-> <<>>, configs |-> <<>>, groups |-> {}])
        s == StageIndex(with_stage, name)
        stage == with_stage[s]
        target_name == Join(name_components(item), " ")
        test_type == Join(test_components(item), "/")
        targets == setdefault(stage.targets, target_name,
                              [name |-> target_name, type |-> test_type])
        target == targets[TargetIndex(targets, target_name)]
    IN IF stage.incidental # item.incidental
       THEN [err |-> "StageIncidentalConflict", stages |-> stages]
       ELSE IF target_conflict(target, test_type)
       THEN [err |-> "TargetTypeConflict", stages |-> stages]
       ELSE [err |-> "ok",
             stages |-> [with_stage EXCEPT ![s] =
                            [stage EXCEPT !.configs = Append(stage.configs, item),
                                          !.targets = targets,
                                          !.groups = IF Truthy(item.group)
                                                     THEN stage.groups \cup {item.group[1]}
                                                     ELSE stage.groups]]]

RECURSIVE SumJobs(_)
SumJobs(stages) ==
    IF stages = <<>> THEN 0 ELSE job_count(Head(stages)) + SumJobs(Tail(stages))

\* sum(stage.job_count for stage in stages.values())
converted_jobs(stages) == SumJobs(stages)

\* The mutant of count_fatal for C2: the comparison dropped.
count_fatal_never(converted, entries) == FALSE

\* converted_jobs < len(classified_matrix) raises.
count_fatal(converted, entries) == converted < entries

\* range(1, 10) of the two prefix scans stops before RangeStop.
RangeStop == 10

\* The mutant of prefix_scan for C13: the scans run over range(1, 3).
RECURSIVE prefix_scan_shallow(_, _, _)
prefix_scan_shallow(components, i, best) ==
    IF i >= 3 THEN best
    ELSE LET prefix == {Take(components[k], i) : k \in 1..Len(components)}
         IN IF Cardinality(prefix) # 1 THEN best
            ELSE LET p == CHOOSE x \in prefix : TRUE
                 IN IF p[Len(p)] = <<>> THEN best
                    ELSE prefix_scan_shallow(components, i + 1, p)

\* One prefix scan: components is the sequence of the configs' component
\* tuples; best is the prefix found so far, i the next depth.
RECURSIVE prefix_scan(_, _, _)
prefix_scan(components, i, best) ==
    IF i >= RangeStop THEN best
    ELSE LET prefix == {Take(components[k], i) : k \in 1..Len(components)}
         IN IF Cardinality(prefix) # 1 THEN best
            ELSE LET p == CHOOSE x \in prefix : TRUE
                 IN IF p[Len(p)] = <<>> THEN best
                    ELSE prefix_scan(components, i + 1, p)

test_prefix_of(stage) ==
    prefix_scan([k \in 1..Len(stage.configs) |-> test_components(stage.configs[k])],
                1, <<>>)

name_prefix_of(stage) ==
    prefix_scan([k \in 1..Len(stage.configs) |-> name_components(stage.configs[k])],
                1, <<>>)

\* tuple(list(stage.groups)[0], ): the tuple of the characters of the one group.
test_suffix_of(stage) ==
    IF Cardinality(stage.groups) = 1
    THEN LET g == CHOOSE x \in stage.groups : TRUE
         IN [i \in 1..Len(g) |-> <<g[i]>>]
    ELSE <<>>

groups_of(stage) ==
    IF Cardinality(stage.groups) > 1 THEN Some(clean_values(stage.groups)) ELSE None

Placeholder == <<"{","0","}">>

test_format_of(stage) ==
    Join(test_prefix_of(stage) \o <<Placeholder>> \o test_suffix_of(stage), "/")

name_format_of(stage) == Join(name_prefix_of(stage) \o <<Placeholder>>, " ")

\* len(sep.join(prefix) + sep), 0 without a prefix
offset_of(prefix, sep) == IF prefix = <<>> THEN 0 ELSE Len(Join(prefix, sep)) + 1

\* One target's emitted record; name is dropped when it equals test.
target_add(stage, target) ==
    LET name == clean_value(SliceFrom(target.name, offset_of(name_prefix_of(stage), " ")))
        tst == clean_value(SliceFrom(target.type, offset_of(test_prefix_of(stage), "/")))
    IN [name |-> IF EmittedEq(name, tst) THEN None ELSE Some(name), test |-> tst]

stage_id(stage) == Replace(Replace(stage.name, <<" ">>, <<"_">>), <<".">>, <<"_">>)

\* One iteration of the loop that generates the content of a stage.
content_stage(stage) ==
    [stage |-> stage_id(stage),
     displayName |-> IF stage.name = stage_id(stage) THEN None ELSE Some(stage.name),
     nameFormat |-> IF name_format_of(stage) = Placeholder THEN None
                    ELSE Some(name_format_of(stage)),
     testFormat |-> IF test_format_of(stage) = Placeholder THEN None
                    ELSE Some(test_format_of(stage)),
     targets |-> [k \in 1..Len(stage.targets) |-> target_add(stage, stage.targets[k])],
     groups |-> groups_of(stage)]

\* The Summary stage appended after the loop.
summary_stage(content_stages) ==
    [stage |-> <<"S","u","m","m","a","r","y">>,
     dependsOn |-> [k \in 1..Len(content_stages) |-> content_stages[k].stage]]

(***************************************************************************)
(* The inputs: the raw env strings of shippable.yml's matrix.              *)
(***************************************************************************)
Heads == {<<>>, <<<<"d","e","v","e","l">>>>, <<<<"2",".","9">>>>, <<<<"s","t","a","b","l","e","-","2",".","1","0">>>>}

Marks == {<<>>, <<<<"i">>>>}

TypeTokens == (DOMAIN test_types) \cup {<<"b","o","g","u","s">>}

\* The segments after the type token: every arity from 0 to 4, with and
\* without a '.', and with empty segments.
Tails ==
    {<<>>, <<<<"1">>>>, <<<<"3",".","6">>>>, <<<<"2",".","7">>, <<"1">>>>, <<<<"p">>, <<"2",".","7">>, <<"1">>>>,
     <<<<"a">>, <<"b">>, <<"c">>, <<"d">>>>, <<<<>>>>, <<<<"2",".","7">>, <<>>>>, <<<<>>, <<"1">>>>}

\* The segments after linux: every alias alone and with a group, an unknown
\* alias, and aliases beside empty or surplus segments.
DockerTails ==
    {<<a>> : a \in DOMAIN docker_types} \cup
    {<<a, <<"1">>>> : a \in DOMAIN docker_types} \cup
    {<<<<"c","e","n","t","o","s","9">>>>, <<<<"c","e","n","t","o","s","7">>, <<>>>>, <<<<>>, <<"c","e","n","t","o","s","7">>, <<"1">>>>,
     <<<<"c","e","n","t","o","s">>, <<"7">>, <<"1">>>>, <<<<"c","e","n","t","o","s">>, <<"7">>>>}

Paths ==
    {Join(h \o m \o <<t>> \o tl, "/") : h \in Heads, m \in Marks, t \in TypeTokens, tl \in Tails}
    \cup
    {Join(h \o m \o <<<<"l","i","n","u","x">>>> \o tl, "/") : h \in Heads, m \in Marks, tl \in DockerTails}
    \cup
    {<<>>, <<"d","e","v","e","l">>, <<"i">>, <<"d","e","v","e","l","/","i">>}

\* Raw strings with further keys, repeated keys, and tokens that are not
\* one key and one value.
KeyedEntries ==
    {<<"T","=","a","w","s","/","2",".","7","/","1"," ","A","_","R","E","V","=","s","t","a","b","l","e","-","2",".","9">>, <<"A","_","R","E","V","=","s","t","a","b","l","e","-","2",".","1","0"," ","T","=","i","/","a","w","s","/","3",".","6","/","2">>,
     <<"T","=","d","e","v","e","l","/","a","w","s","/","2",".","7","/","1"," ","A","_","R","E","V","=","d","e","v","e","l">>, <<"T","=","a","w","s","/","2",".","7","/","1"," ","A","=","d","e","v","e","l"," ","B","=","2",".","9">>,
     <<"T","=","a","w","s","/","2",".","7","/","1"," ","F","O","O","=","b","a","r">>, <<"T","=","a","w","s","/","2",".","7","/","1"," ","F","O","O","=","b","a","r"," ","A","_","R","E","V","=","d","e","v","e","l">>,
     <<"T","=","u","n","i","t","s","/","1"," ","T","=","u","n","i","t","s","/","2">>, <<"A","=","1"," ","T","=","s","a","n","i","t","y"," ","A","=","d","e","v","e","l">>, <<"T","=","u","n","i","t","s","/","1"," ","O","P","T","S","=","a","=","b">>,
     <<"T","=","u","n","i","t","s","/","1"," ","=","d","e","v","e","l">>, <<"=","x"," ","T","=","u","n","i","t","s","/","1">>, <<"T","=","u","n","i","t","s","/","1"," "," ">>, <<"X","=","1">>, <<"T">>, <<>>,
     <<"T","=","l","i","n","u","x","/","c","e","n","t","o","s","7"," ","T","=","u","n","i","t","s","/","3",".","6">>,
     <<"T","=","b","o","g","u","s"," ","F","O","O","=","b","a","r">>, <<"T","=","d","e","v","e","l"," ","F","O","O","=","b","a","r">>, <<"T","=","i"," ","F","O","O","=","b","a","r">>, <<"T","=","d","e","v","e","l","/","i"," ","A","_","R","E","V","=","2",".","9">>,
     <<"T","=","d","e","v","e","l","/","u","n","i","t","s","/","3",".","6"," ","F","O","O","=","b","a","r">>, <<"T","=","a","/","b","/","c","/","d","/","e","/","f"," ","F","O","O","=","b","a","r">>, <<"T","=","l","i","n","u","x","/","c","e","n","t","o","s","9"," ","F","O","O","=","b","a","r">>}

SingleEntries == {<<"T","=">> \o path : path \in Paths} \cup KeyedEntries

\* The entries the longer matrices are made of: versions, groups, a second
\* stage, an incidental entry, and entries refused by the decoder and by the
\* classifier.
EntryPool ==
    {<<"T","=","u","n","i","t","s","/","3",".","1","0">>, <<"T","=","u","n","i","t","s","/","3",".","6">>, <<"T","=","u","n","i","t","s","/","2",".","7","/","1">>, <<"T","=","u","n","i","t","s","/","2",".","7","/","2">>,
     <<"T","=","l","i","n","u","x","/","c","e","n","t","o","s","7">>, <<"T","=","i","/","u","n","i","t","s","/","3",".","6">>, <<"T","=","u","n","i","t","s","/","1"," ","O","P","T","S","=","a","=","b">>, <<"T","=","l","i","n","u","x","/","c","e","n","t","o","s","9">>}

\* Matrices of entries that meet in one stage.
CaseMatrices ==
    {<<<<"T","=","2",".","9","/","a","w","s","/","2",".","7","/","1">>, <<"T","=","a","w","s","/","2",".","7","/","1"," ","A","_","R","E","V","=","s","t","a","b","l","e","-","2",".","9">>>>,
     <<<<"T","=","a","w","s","/","2",".","7","/","1"," ","A","_","R","E","V","=","s","t","a","b","l","e","-","2",".","9">>, <<"T","=","2",".","9","/","a","w","s","/","2",".","7","/","1">>>>,
     <<<<"T","=","d","e","v","e","l","/","i","/","u","n","i","t","s","/","3",".","6">>, <<"T","=","i","/","u","n","i","t","s","/","3",".","6">>>>,
     <<<<"T","=","i","/","u","n","i","t","s","/","3",".","6">>, <<"T","=","d","e","v","e","l","/","i","/","u","n","i","t","s","/","3",".","6">>>>,
     <<<<"T","=","s","a","n","i","t","y","/","0","7">>, <<"T","=","s","a","n","i","t","y","/","1">>>>,
     <<<<"T","=","a","w","s","/","2",".","7","/","1"," ","A","_","R","E","V","=","s","t","a","b","l","e","-","2",".","9">>, <<"T","=","d","e","v","e","l","/","a","w","s","/","2",".","7","/","1"," ","A","_","R","E","V","=","d","e","v","e","l">>>>,
     <<<<"T","=","u","n","i","t","s","/","2",".","7","/","1","0">>, <<"T","=","u","n","i","t","s","/","3",".","6","/","1","0">>>>,
     <<<<"T","=","u","n","i","t","s","/","2",".","7","/","1">>, <<"T","=","u","n","i","t","s","/","2",".","7","/","2">>, <<"T","=","u","n","i","t","s","/","2",".","7","/","1","0">>>>,
     <<<<"T","=","l","i","n","u","x","/","o","p","e","n","s","u","s","e","1","5">>, <<"T","=","l","i","n","u","x","/","o","p","e","n","s","u","s","e","1","5","p","y","2">>, <<"T","=","l","i","n","u","x","/","c","e","n","t","o","s","7">>>>,
     <<<<"T","=","i","/","l","i","n","u","x","/","c","e","n","t","o","s","7">>, <<"T","=","l","i","n","u","x","/","c","e","n","t","o","s","7">>, <<"T","=","i","/","w","i","n","d","o","w","s","/","2","0","1","2">>>>}

Matrices ==
    {<<e>> : e \in SingleEntries} \cup
    CaseMatrices \cup
    UNION {[1..n -> EntryPool] : n \in 1..MaxEntries}

(***************************************************************************)
(* main: the state of one run.                                             *)
(***************************************************************************)
VARIABLES
    matrix_include,     \* shippable['matrix']['include'], the raw env strings
    pc,                 \* where main is
    parsed_matrix,      \* the MatrixItems parsed so far
    classified_matrix,  \* the TestConfigs classified so far
    stages,             \* generate_stages: the dict of the stages
    content_stages,     \* generate_stages: the list it returns
    content,            \* what generate_pipelines_config returned (Optional)
    output,             \* what write_content has put in the working tree
    error,              \* the exception that ended the run, "" for none
    warning             \* the count warning was printed

vars == <<matrix_include, pc, parsed_matrix, classified_matrix, stages,
          content_stages, content, output, error, warning>>

Init ==
    /\ matrix_include \in Matrices
    /\ pc = "parse"
    /\ parsed_matrix = <<>>
    /\ classified_matrix = <<>>
    /\ stages = <<>>
    /\ content_stages = <<>>
    /\ content = None
    /\ output = {}
    /\ error = ""
    /\ warning = FALSE

\* The mutant of Fail for C5: the exception is caught and reported, and main
\* goes on to write_content.
FailAndWrite(kind) == pc' = "write" /\ error' = kind

\* An exception leaves main: nothing catches it.
Fail(kind) == pc' = "failed" /\ error' = kind

\* parse_shippable_matrix, one item of matrix_include
ParseItem ==
    /\ pc = "parse"
    /\ LET r == parse_item(matrix_include[Len(parsed_matrix) + 1])
       IN IF r.err # "ok"
          THEN /\ Fail(r.err)
               /\ UNCHANGED parsed_matrix
          ELSE /\ parsed_matrix' = Append(parsed_matrix, r.item)
               /\ pc' = IF Len(parsed_matrix) + 1 = Len(matrix_include)
                        THEN "classify" ELSE "parse"
               /\ UNCHANGED error
    /\ UNCHANGED <<matrix_include, classified_matrix, stages, content_stages,
                   content, output, warning>>

\* classify_matrix_item, one item of parsed_matrix
ClassifyItem ==
    /\ pc = "classify"
    /\ \E script_exists \in BOOLEAN :
         LET r == classify_matrix_item(parsed_matrix[Len(classified_matrix) + 1],
                                       script_exists)
         IN IF r.err # "ok"
            THEN /\ Fail(r.err)
                 /\ UNCHANGED classified_matrix
            ELSE /\ classified_matrix' = Append(classified_matrix, r.cfg[1])
                 /\ pc' = IF Len(classified_matrix) + 1 = Len(parsed_matrix)
                          THEN "fold" ELSE "classify"
                 /\ UNCHANGED error
    /\ UNCHANGED <<matrix_include, parsed_matrix, stages, content_stages,
                   content, output, warning>>

\* The number of configs folded into the stages so far.
RECURSIVE Folded(_)
Folded(ss) == IF ss = <<>> THEN 0 ELSE Len(Head(ss).configs) + Folded(Tail(ss))

\* generate_stages, one item of classified_matrix
FoldItem ==
    /\ pc = "fold"
    /\ LET r == fold_item(stages, classified_matrix[Folded(stages) + 1])
       IN IF r.err # "ok"
          THEN /\ Fail(r.err)
               /\ UNCHANGED stages
          ELSE /\ stages' = r.stages
               /\ pc' = IF Folded(stages) + 1 = Len(classified_matrix)
                        THEN "count" ELSE "fold"
               /\ UNCHANGED error
    /\ UNCHANGED <<matrix_include, parsed_matrix, classified_matrix,
                   content_stages, content, output, warning>>

\* generate_stages, the comparison of the job count with the entry count
CheckCount ==
    /\ pc = "count"
    /\ IF count_fatal(converted_jobs(stages), Len(classified_matrix))
       THEN /\ Fail("MatrixCountMismatch")
            /\ UNCHANGED warning
       ELSE /\ warning' = (converted_jobs(stages) > Len(classified_matrix))
            /\ pc' = "compile"
            /\ UNCHANGED error
    /\ UNCHANGED <<matrix_include, parsed_matrix, classified_matrix, stages,
                   content_stages, content, output>>

\* generate_stages, the content of one stage
CompileStage ==
    /\ pc = "compile"
    /\ content_stages' = Append(content_stages,
                                content_stage(stages[Len(content_stages) + 1]))
    /\ pc' = IF Len(content_stages) + 1 = Len(stages) THEN "config" ELSE "compile"
    /\ UNCHANGED <<matrix_include, parsed_matrix, classified_matrix, stages,
                   content, output, error, warning>>

\* generate_stages appends the Summary stage and returns;
\* generate_pipelines_config puts the stages in the configuration.
GenerateConfig ==
    /\ pc = "config"
    /\ content' = Some([stages |-> content_stages,
                        summary |-> summary_stage(content_stages)])
    /\ pc' = "write"
    /\ UNCHANGED <<matrix_include, parsed_matrix, classified_matrix, stages,
                   content_stages, output, error, warning>>

\* What write_content has written when it stops at each of its steps:
\* copytree, the dump of azure-pipelines.yml, patch_scripts.
OutputAt(step) ==
    IF step = "copytree" THEN {}
    ELSE IF step = "dump" THEN {"templates"}
    ELSE IF step = "patch_scripts" THEN {"templates", "azure-pipelines.yml"}
    ELSE {"templates", "azure-pipelines.yml", "shippable.sh"}

\* write_content; the file system may fail it at any of its steps.
WriteContent ==
    /\ pc = "write"
    /\ \E step \in {"copytree", "dump", "patch_scripts", "return"} :
         /\ output' = OutputAt(step)
         /\ IF step = "return"
            THEN pc' = "done" /\ UNCHANGED error
            ELSE Fail("OSError")
    /\ UNCHANGED <<matrix_include, parsed_matrix, classified_matrix, stages,
                   content_stages, content, warning>>

Next ==
    \/ ParseItem
    \/ ClassifyItem
    \/ FoldItem
    \/ CheckCount
    \/ CompileStage
    \/ GenerateConfig
    \/ WriteContent

Spec == Init /\ [][Next]_vars

(***************************************************************************)
(* What a state says about the run so far.                                 *)
(***************************************************************************)
ParseDone == Len(parsed_matrix) = Len(matrix_include)

\* parse_shippable_matrix raised on entry i.
ParseRejectedAt(i) ==
    pc = "failed" /\ ~ParseDone /\ Len(parsed_matrix) = i - 1

\* classify_matrix_item raised on entry i.
RejectedAt(i) ==
    /\ pc = "failed" /\ ParseDone
    /\ i <= Len(parsed_matrix) /\ Len(classified_matrix) = i - 1

\* generate_stages returned.
StagesGenerated == pc \in {"config", "write", "done"} \/ content # None

\* get_test_config as classify_matrix_item calls it for a parsed item.
ConfigOf(item) ==
    LET a == classify_args(item)
    IN get_test_config(a.test_type, a.parts, a.incidental,
                       a.b.branch_prefix, a.b.branch_kvp)

Rebuilds(item) ==
    /\ classify_args(item).err = "ok"
    /\ ConfigOf(item).err = "ok"

(***************************************************************************)
(* C1  Round-trip.  Every entry that classify_matrix_item turned into a    *)
(* TestConfig rebuilds, by TestConfig.test, to exactly its original T      *)
(* path; an entry whose decoded config rebuilds to another path never gets *)
(* a TestConfig and ends the run with the reconstruction mismatch; and     *)
(* every alias of docker_types, as linux/<alias>, is accepted (it can fail *)
(* only on the script that is missing on disk) and rebuilds to itself.     *)
(***************************************************************************)
RoundTrip ==
    /\ \A i \in 1..Len(classified_matrix) :
         test(classified_matrix[i]) = parsed_matrix[i].test
    /\ \A i \in 1..Len(parsed_matrix) :
         (Rebuilds(parsed_matrix[i])
            /\ test(ConfigOf(parsed_matrix[i]).cfg[1]) # parsed_matrix[i].test)
         => /\ Len(classified_matrix) < i
            /\ pc \in {"parse", "classify", "failed"}
            /\ RejectedAt(i) => error = "ReconstructionMismatch"
    /\ \A alias \in DOMAIN docker_types :
         matrix_include = <<<<"T","=","l","i","n","u","x","/">> \o alias>>
         => /\ pc = "failed" => error \in {"MissingScript", "OSError"}
            /\ classified_matrix # <<>> =>
                 test(classified_matrix[1]) = <<"l","i","n","u","x","/">> \o alias

\* An alias whose version holds a '.' and one whose version holds a blank
\* have been classified.
RoundTripWitness ==
    /\ Len(classified_matrix) = 1
    /\ parsed_matrix[1].test \in {<<"l","i","n","u","x","/","u","b","u","n","t","u","1","6","0","4">>, <<"l","i","n","u","x","/","o","p","e","n","s","u","s","e","1","5","p","y","2">>}
    /\ classified_matrix[1].version \in {Some(<<"1","6",".","0","4">>), Some(<<"1","5"," ","p","y","2">>)}
    /\ pc = "done"

Max(a, b) == IF a >= b THEN a ELSE b

RECURSIVE TotalJobs(_)
TotalJobs(ss) ==
    IF ss = <<>> THEN 0
    ELSE Len(Head(ss).targets) * Max(1, Cardinality(Head(ss).groups)) + TotalJobs(Tail(ss))

AllFolded == ParseDone /\ Folded(stages) = Len(matrix_include)

(***************************************************************************)
(* C2  Accounting.  Once generate_stages has passed its count check, the   *)
(* sum over the stages of targetCount * max(1, groupCount) is at least the *)
(* number of classified entries; a smaller sum ends the run with the count *)
(* mismatch (so does the same entry listed twice), a larger one only sets  *)
(* the warning and every stage is still produced.                          *)
(***************************************************************************)
Accounting ==
    /\ pc \in {"compile", "config", "write", "done"} \/ content # None
       => /\ TotalJobs(stages) >= Len(classified_matrix)
          /\ warning = (TotalJobs(stages) > Len(classified_matrix))
    /\ StagesGenerated => Len(content_stages) = Len(stages)
    /\ (AllFolded /\ TotalJobs(stages) < Len(classified_matrix))
       => /\ pc \in {"count", "failed"}
          /\ content = None /\ content_stages = <<>>
          /\ pc = "failed" => error = "MatrixCountMismatch"
    /\ (pc = "failed" /\ error = "MatrixCountMismatch")
       => TotalJobs(stages) < Len(classified_matrix)
    /\ (AllFolded /\ Len(matrix_include) = 2 /\ matrix_include[1] = matrix_include[2])
       => pc \in {"count", "failed"}

\* A run with more jobs than entries has written its pipeline.
AccountingWitness ==
    /\ pc = "done"
    /\ warning
    /\ TotalJobs(stages) > Len(classified_matrix)

Reconstructs(prefix, residual, sep, whole) ==
    \/ Join(Append(prefix, residual), sep) = whole
    \/ residual = <<>> /\ Join(prefix, sep) = whole

EmittedName(t) == IF t.name = None THEN t.test ELSE t.name[1]

(***************************************************************************)
(* C3  Prefix-compaction soundness.  For every target of every emitted     *)
(* stage, the path prefix followed by the emitted residual test value      *)
(* gives back the target's path, and the name prefix followed by the       *)
(* emitted residual name (the test value, when the name was dropped as     *)
(* equal to it) gives back the target's display name, whatever the         *)
(* residual looks like.  An empty residual may stand for one empty token   *)
(* or for none, so a target that is its whole prefix is rebuilt from the   *)
(* prefix alone.                                                           *)
(***************************************************************************)
CompactionSound ==
    \A k \in 1..Len(content_stages) :
      \A j \in 1..Len(content_stages[k].targets) :
        LET stage == stages[k]
            emitted == content_stages[k].targets[j]
        IN /\ Reconstructs(test_prefix_of(stage), Rendered(emitted.test), "/",
                           stage.targets[j].type)
           /\ Reconstructs(name_prefix_of(stage), Rendered(EmittedName(emitted)), " ",
                           stage.targets[j].name)

AliasedPairs ==
    {{<<"T","=","2",".","9","/","a","w","s","/","2",".","7","/","1">>, <<"T","=","a","w","s","/","2",".","7","/","1"," ","A","_","R","E","V","=","s","t","a","b","l","e","-","2",".","9">>},
     {<<"T","=","d","e","v","e","l","/","i","/","u","n","i","t","s","/","3",".","6">>, <<"T","=","i","/","u","n","i","t","s","/","3",".","6">>}}

FoldRejected == pc = "failed" /\ Len(classified_matrix) = Len(matrix_include)
                /\ Folded(stages) < Len(matrix_include)

(***************************************************************************)
(* C4  No target aliasing.  In every stage the target names are distinct   *)
(* and each entry folded into the stage has the path of the target of its  *)
(* display name; an entry whose display name is in its stage with another  *)
(* path ends the run with the target conflict, as 2.9/aws/2.7/1 beside     *)
(* aws/2.7/1 with A_REV=stable-2.9, and devel/i/units/3.6 beside           *)
(* i/units/3.6, do.                                                        *)
(***************************************************************************)
NoTargetAliasing ==
    /\ \A k \in 1..Len(stages) :
         /\ \A i, j \in 1..Len(stages[k].targets) :
              stages[k].targets[i].name = stages[k].targets[j].name => i = j
         /\ \A n \in 1..Len(stages[k].configs) :
              \E j \in 1..Len(stages[k].targets) :
                /\ stages[k].targets[j].name
                     = Join(name_components(stages[k].configs[n]), " ")
                /\ stages[k].targets[j].type
                     = Join(test_components(stages[k].configs[n]), "/")
    /\ (Len(matrix_include) = 2 /\ {matrix_include[1], matrix_include[2]} \in AliasedPairs)
       => /\ Folded(stages) <= 1
          /\ pc \in {"parse", "classify", "fold", "failed"}
          /\ FoldRejected => error = "TargetTypeConflict"

\* The second entry of an aliased pair has been refused.
NoTargetAliasingWitness ==
    /\ Len(matrix_include) = 2
    /\ {matrix_include[1], matrix_include[2]} \in AliasedPairs
    /\ Folded(stages) = 1
    /\ FoldRejected /\ error = "TargetTypeConflict"

EntryErrors ==
    {"ValueError", "KeyError", "UnrecognizedEnvKey", "IndexError", "UnknownTestType",
     "UnhandledArity", "UnexpectedParameters", "UnknownDockerAlias",
     "ReconstructionMismatch", "MissingScript", "StageIncidentalConflict",
     "TargetTypeConflict", "MatrixCountMismatch"}

(***************************************************************************)
(* C5  All-or-nothing.  write_content has put something in the working     *)
(* tree only after every entry was parsed and classified, all were folded, *)
(* the count check passed, every stage was compiled and the configuration  *)
(* was generated; a run ended by an error of an entry or of the            *)
(* aggregation has written nothing and holds no configuration.             *)
(***************************************************************************)
AllOrNothing ==
    /\ output # {}
       => /\ Len(parsed_matrix) = Len(matrix_include)
          /\ Len(classified_matrix) = Len(matrix_include)
          /\ Folded(stages) = Len(matrix_include)
          /\ TotalJobs(stages) >= Len(matrix_include)
          /\ Len(content_stages) = Len(stages)
          /\ content # None
          /\ error \notin EntryErrors
    /\ error \in EntryErrors => pc = "failed" /\ output = {} /\ content = None
    /\ "azure-pipelines.yml" \in output => content # None /\ "templates" \in output

\* A matrix whose last entry is refused after the others were classified:
\* nothing was written.
AllOrNothingWitness ==
    /\ Len(matrix_include) = MaxEntries
    /\ RejectedAt(MaxEntries)
    /\ error \in EntryErrors
    /\ output = {}

Unstable(b) == IF StartsWith(b, <<"s","t","a","b","l","e","-">>) THEN SliceFrom(b, 7) ELSE b

ExpectedStageName(item) ==
    LET a == classify_args(item)
        label == test_types[a.test_type][1]
        branch == IF a.b.branch_prefix # None THEN a.b.branch_prefix
                  ELSE IF a.b.branch_kvp # None THEN Some(a.b.branch_kvp[1][2])
                  ELSE None
        named == IF branch # None THEN label \o <<" ">> \o Unstable(branch[1]) ELSE label
    IN IF ~a.incidental THEN named
       ELSE IF label \in {<<"D","o","c","k","e","r">>, <<"R","e","m","o","t","e">>, <<"W","i","n","d","o","w","s">>} THEN <<"I","n","c","i","d","e","n","t","a","l"," ">> \o named
       ELSE <<"I","n","c","i","d","e","n","t","a","l">>

(***************************************************************************)
(* C6  Stage display name.  Every classified entry's stage_name is the     *)
(* stage label of its type token, then a blank and its branch (the branch  *)
(* prefix of the path, or else the branch value of the leftover mapping,   *)
(* without a leading stable-) when it has one; for an incidental entry     *)
(* that name after "Incidental " when the label is Docker, Remote or       *)
(* Windows, and just "Incidental" for any other label.  i/linux/centos7    *)
(* is in Incidental Docker and devel/sanity in Sanity devel.               *)
(***************************************************************************)
StageDisplayName ==
    /\ \A i \in 1..Len(classified_matrix) :
         /\ stage_name(classified_matrix[i]) = ExpectedStageName(parsed_matrix[i])
         /\ parsed_matrix[i].test = <<"i","/","l","i","n","u","x","/","c","e","n","t","o","s","7">>
            => stage_name(classified_matrix[i]) = <<"I","n","c","i","d","e","n","t","a","l"," ","D","o","c","k","e","r">>
         /\ parsed_matrix[i].test = <<"d","e","v","e","l","/","s","a","n","i","t","y">>
            => stage_name(classified_matrix[i]) = <<"S","a","n","i","t","y"," ","d","e","v","e","l">>
    /\ \A k \in 1..Len(stages) :
         \A n \in 1..Len(stages[k].configs) :
           stages[k].name = stage_name(stages[k].configs[n])

\* An incidental entry of a split label with a stable- branch has been folded.
StageDisplayNameWitness ==
    \E k \in 1..Len(stages) :
      \E n \in 1..Len(stages[k].configs) :
        /\ stages[k].configs[n].incidental
        /\ stages[k].configs[n].branch_prefix = Some(<<"s","t","a","b","l","e","-","2",".","1","0">>)
        /\ stages[k].name = <<"I","n","c","i","d","e","n","t","a","l"," ","W","i","n","d","o","w","s"," ","2",".","1","0">>

\* The elements of a sequence in the order of their first occurrence.
RECURSIVE FirstSeen(_, _)
FirstSeen(xs, seen) ==
    IF xs = <<>> THEN seen
    ELSE IF \E i \in 1..Len(seen) : seen[i] = Head(xs) THEN FirstSeen(Tail(xs), seen)
    ELSE FirstSeen(Tail(xs), Append(seen, Head(xs)))

\* The entries folded so far whose stage name is name, in input order.
RECURSIVE EntriesOf(_, _)
EntriesOf(cs, name) ==
    IF cs = <<>> THEN <<>>
    ELSE (IF stage_name(Head(cs)) = name THEN <<Head(cs)>> ELSE <<>>)
         \o EntriesOf(Tail(cs), name)

FoldedEntries == SubSeq(classified_matrix, 1, Folded(stages))

(***************************************************************************)
(* C7  First-seen order.  The stages are in the order in which their       *)
(* display name first occurs among the entries folded so far, the targets  *)
(* of a stage in the order in which their display name first occurs among  *)
(* the stage's entries, and the emitted stages and targets, and the stage  *)
(* names the Summary stage depends on, are in that same order.             *)
(***************************************************************************)
FirstSeenOrder ==
    /\ [k \in 1..Len(stages) |-> stages[k].name]
         = FirstSeen([i \in 1..Len(FoldedEntries) |-> stage_name(FoldedEntries[i])], <<>>)
    /\ \A k \in 1..Len(stages) :
         /\ stages[k].configs = EntriesOf(FoldedEntries, stages[k].name)
         /\ [j \in 1..Len(stages[k].targets) |-> stages[k].targets[j].name]
              = FirstSeen([n \in 1..Len(stages[k].configs) |->
                             Join(name_components(stages[k].configs[n]), " ")], <<>>)
    /\ \A k \in 1..Len(content_stages) :
         /\ content_stages[k].stage
              = Replace(Replace(stages[k].name, <<" ">>, <<"_">>), <<".">>, <<"_">>)
         /\ Len(content_stages[k].targets) = Len(stages[k].targets)
         /\ \A j \in 1..Len(stages[k].targets) :
              content_stages[k].targets[j]
                = target_add(stages[k], stages[k].targets[j])
    /\ content # None
       => /\ content[1].stages = content_stages
          /\ content[1].summary.dependsOn
               = [k \in 1..Len(stages) |->
                    Replace(Replace(stages[k].name, <<" ">>, <<"_">>), <<".">>, <<"_">>)]

\* Three entries in two stages, the third back in the first stage with a
\* new target: written in first-seen order.
FirstSeenOrderWitness ==
    /\ pc = "done"
    /\ Len(classified_matrix) = 3
    /\ Len(stages) = 2
    /\ stage_name(classified_matrix[1]) = stage_name(classified_matrix[3])
    /\ stage_name(classified_matrix[1]) # stage_name(classified_matrix[2])
    /\ Len(stages[1].targets) = 2

\* The tokens of a raw entry are its pieces between blanks; the key of a
\* token is its text before its first '=' and its value the text after it.
RECURSIVE CountOf(_, _)
CountOf(s, c) ==
    IF s = <<>> THEN 0 ELSE (IF Head(s) = c THEN 1 ELSE 0) + CountOf(Tail(s), c)

FirstAt(s, c) == CHOOSE i \in 1..Len(s) : s[i] = c /\ \A j \in 1..(i - 1) : s[j] # c

KeyOf(token) == SubSeq(token, 1, FirstAt(token, "=") - 1)

ValueOf(token) == SubSeq(token, FirstAt(token, "=") + 1, Len(token))

TokensOf(raw) == Split(raw, " ")

\* The value of the last token of raw whose key is key.
LastValue(raw, key) ==
    LET tokens == TokensOf(raw)
        last == CHOOSE i \in 1..Len(tokens) :
                  /\ KeyOf(tokens[i]) = key
                  /\ \A j \in (i + 1)..Len(tokens) : KeyOf(tokens[j]) # key
    IN ValueOf(tokens[last])

\* What the claim calls malformed: a token without '=' or with an empty
\* key, a key given twice, or no T key.
Malformed(raw) ==
    LET tokens == TokensOf(raw)
    IN \/ \E i \in 1..Len(tokens) : ~Contains(tokens[i], "=")
       \/ \E i \in 1..Len(tokens) : Contains(tokens[i], "=") /\ KeyOf(tokens[i]) = <<>>
       \/ \E i, j \in 1..Len(tokens) :
            /\ i < j
            /\ Contains(tokens[i], "=") /\ Contains(tokens[j], "=")
            /\ KeyOf(tokens[i]) = KeyOf(tokens[j])
       \/ ~\E i \in 1..Len(tokens) : Contains(tokens[i], "=") /\ KeyOf(tokens[i]) = <<"T">>

(***************************************************************************)
(* C8  Decoder, as claimed.  Each token is cut at its first '=' only, so   *)
(* that a value may hold '='; an entry is decoded exactly when it is not   *)
(* malformed (no repeated key, a T key, no empty key), to the pairs of its *)
(* tokens without T and to the path that T's value splits into on '/'.     *)
(***************************************************************************)
DecoderFirstEquals ==
    \A i \in 1..Len(matrix_include) :
      LET raw == matrix_include[i]
          tokens == TokensOf(raw)
      IN /\ ParseRejectedAt(i) => Malformed(raw)
         /\ i <= Len(parsed_matrix)
            => /\ ~Malformed(raw)
               /\ parsed_matrix[i].test = LastValue(raw, <<"T">>)
               /\ parsed_matrix[i].parts = Split(parsed_matrix[i].test, "/")
               /\ ~DictHas(parsed_matrix[i].values, <<"T">>)
               /\ \A t \in 1..Len(tokens) :
                    KeyOf(tokens[t]) # <<"T">>
                    => /\ DictHas(parsed_matrix[i].values, KeyOf(tokens[t]))
                       /\ DictGet(parsed_matrix[i].values, KeyOf(tokens[t]))
                            = ValueOf(tokens[t])

(***************************************************************************)
(* C8, amended.  Each token is cut at every '=': an entry with a token     *)
(* that holds no '=' or more than one is refused (ValueError), and so is   *)
(* an entry none of whose tokens has the key T (KeyError); any other entry *)
(* is decoded, a repeated key taking the value of its last token and an    *)
(* empty key being a key like any other; T is removed from the mapping and *)
(* its value split on '/' gives the path.                                  *)
(***************************************************************************)
DecoderEveryEquals ==
    \A i \in 1..Len(matrix_include) :
      LET raw == matrix_include[i]
          tokens == TokensOf(raw)
          paired == \A t \in 1..Len(tokens) : CountOf(tokens[t], "=") = 1
          keyed == \E t \in 1..Len(tokens) : KeyOf(tokens[t]) = <<"T">>
      IN /\ ParseRejectedAt(i)
            => \/ error = "ValueError" /\ ~paired
               \/ error = "KeyError" /\ paired /\ ~keyed
         /\ i <= Len(parsed_matrix)
            => /\ paired /\ keyed
               /\ parsed_matrix[i].raw = raw
               /\ parsed_matrix[i].test = LastValue(raw, <<"T">>)
               /\ parsed_matrix[i].parts = Split(parsed_matrix[i].test, "/")
               /\ ~DictHas(parsed_matrix[i].values, <<"T">>)
               /\ \A t \in 1..Len(tokens) :
                    KeyOf(tokens[t]) # <<"T">>
                    => /\ DictHas(parsed_matrix[i].values, KeyOf(tokens[t]))
                       /\ DictGet(parsed_matrix[i].values, KeyOf(tokens[t]))
                            = LastValue(raw, KeyOf(tokens[t]))
               /\ \A v \in 1..Len(parsed_matrix[i].values) :
                    /\ \E t \in 1..Len(tokens) :
                         KeyOf(tokens[t]) = parsed_matrix[i].values[v][1]
                    /\ \A w \in 1..Len(parsed_matrix[i].values) :
                         parsed_matrix[i].values[w][1] = parsed_matrix[i].values[v][1]
                         => w = v

\* An entry whose second token holds two '=' has been refused.
DecoderWitness ==
    /\ matrix_include[1] = <<"T","=","u","n","i","t","s","/","1"," ","O","P","T","S","=","a","=","b">>
    /\ ParseRejectedAt(1)
    /\ error = "ValueError"

ArityFields(c) == <<c.platform, c.version, c.group>>

(***************************************************************************)
(* C9  Arity decode.  For a known type token followed by n segments,       *)
(* get_test_config fails on n > 3 and otherwise sets: nothing for n = 0;   *)
(* for n = 1 the version, unless the type's job label is Python and the    *)
(* segment holds no '.', when it is the group; (version, group) for        *)
(* n = 2; (platform, version, group) for n = 3.  For type linux the        *)
(* version so decoded is the alias that is resolved.  units/3.6 has        *)
(* version 3.6 and units/1 has group 1.                                    *)
(***************************************************************************)
ArityDecode ==
    \A i \in 1..Len(parsed_matrix) :
      LET item == parsed_matrix[i]
          a == classify_args(item)
          n == Len(a.parts)
          r == ConfigOf(item)
      IN (a.err = "ok" /\ a.test_type \in DOMAIN test_types)
         => /\ n > 3 => /\ r.err = "UnhandledArity" /\ r.cfg = None
                        /\ Len(classified_matrix) < i
                        /\ RejectedAt(i) => error = "UnhandledArity"
            /\ i <= Len(classified_matrix) => r.err = "ok" /\ classified_matrix[i] = r.cfg[1]
            /\ (n <= 3 /\ a.test_type # <<"l","i","n","u","x">>)
               => /\ r.err = "ok"
                  /\ n = 0 => ArityFields(r.cfg[1]) = <<None, None, None>>
                  /\ (n = 1 /\ (test_types[a.test_type][2] # <<"P","y","t","h","o","n">>
                                \/ Contains(a.parts[1], ".")))
                     => ArityFields(r.cfg[1]) = <<None, Some(a.parts[1]), None>>
                  /\ (n = 1 /\ test_types[a.test_type][2] = <<"P","y","t","h","o","n">>
                            /\ ~Contains(a.parts[1], "."))
                     => ArityFields(r.cfg[1]) = <<None, None, Some(a.parts[1])>>
                  /\ n = 2 => ArityFields(r.cfg[1])
                                = <<None, Some(a.parts[1]), Some(a.parts[2])>>
                  /\ n = 3 => ArityFields(r.cfg[1])
                                = <<Some(a.parts[1]), Some(a.parts[2]), Some(a.parts[3])>>
            /\ (n <= 3 /\ a.test_type = <<"l","i","n","u","x">> /\ r.err = "ok")
               => /\ n >= 1
                  /\ r.cfg[1].version
                       = Some(docker_types[a.parts[IF n = 3 THEN 2 ELSE 1]][2])
                  /\ r.cfg[1].group = IF n = 1 THEN None ELSE Some(a.parts[n])
            /\ (item.test = <<"u","n","i","t","s","/","3",".","6">> /\ i <= Len(classified_matrix))
               => ArityFields(classified_matrix[i]) = <<None, Some(<<"3",".","6">>), None>>
            /\ (item.test = <<"u","n","i","t","s","/","1">> /\ i <= Len(classified_matrix))
               => ArityFields(classified_matrix[i]) = <<None, None, Some(<<"1">>)>>

\* A Python type with one segment without '.', behind a branch and the
\* incidental marker, was classified with that segment as its group.
ArityDecodeWitness ==
    /\ Len(classified_matrix) = 1
    /\ parsed_matrix[1].test = <<"d","e","v","e","l","/","i","/","a","w","s","/","1">>
    /\ ArityFields(classified_matrix[1]) = <<None, None, Some(<<"1">>)>>
    /\ pc = "done"

(***************************************************************************)
(* C10  Docker alias resolution.  For type token linux, get_test_config    *)
(* fails with unexpected parameters when the decoded platform is set (not  *)
(* empty) or the decoded version is not, and with the unknown alias when   *)
(* that version is no key of docker_types; otherwise the job label is the  *)
(* image's name, the platform that name in lower case and the version the  *)
(* image's version.  An entry is classified only with 1 or 2 segments      *)
(* after linux, the first a key of docker_types.  For every other type     *)
(* token the job label is the table's and platform, version and group are  *)
(* as the arity decode set them.                                           *)
(***************************************************************************)
DockerAlias ==
    \A i \in 1..Len(parsed_matrix) :
      LET item == parsed_matrix[i]
          a == classify_args(item)
          n == Len(a.parts)
          r == ConfigOf(item)
          platform_set == n = 3 /\ a.parts[1] # <<>>
          alias == IF n = 0 THEN <<>> ELSE a.parts[IF n = 3 THEN 2 ELSE 1]
      IN (a.err = "ok" /\ a.test_type \in DOMAIN test_types /\ n <= 3)
         => /\ (a.test_type = <<"l","i","n","u","x">> /\ (platform_set \/ alias = <<>>))
               => r.err = "UnexpectedParameters" /\ r.cfg = None
            /\ (a.test_type = <<"l","i","n","u","x">> /\ ~platform_set /\ alias # <<>>
                  /\ alias \notin DOMAIN docker_types)
               => r.err = "UnknownDockerAlias" /\ r.cfg = None
            /\ (a.test_type = <<"l","i","n","u","x">> /\ ~platform_set /\ alias \in DOMAIN docker_types)
               => /\ r.err = "ok"
                  /\ r.cfg[1].job_label = docker_types[alias][1]
                  /\ r.cfg[1].version = Some(docker_types[alias][2])
                  /\ Len(r.cfg[1].platform[1]) = Len(docker_types[alias][1])
                  /\ \A k \in 1..Len(docker_types[alias][1]) :
                       /\ r.cfg[1].platform[1][k] = LowerChar(docker_types[alias][1][k])
                       /\ ~\E u \in 1..Len(UpperCase) :
                            UpperCase[u] = r.cfg[1].platform[1][k]
            /\ (a.test_type = <<"l","i","n","u","x">> /\ i <= Len(classified_matrix))
               => /\ n \in {1, 2}
                  /\ a.parts[1] \in DOMAIN docker_types
                  /\ classified_matrix[i] = r.cfg[1]
            /\ (a.test_type = <<"l","i","n","u","x">> /\ RejectedAt(i) /\ r.err # "ok")
               => error = r.err
            /\ a.test_type # <<"l","i","n","u","x">>
               => /\ r.err = "ok"
                  /\ r.cfg[1].job_label = test_types[a.test_type][2]
                  /\ LET f == arity_decode(test_types[a.test_type][2], a.parts)
                     IN ArityFields(r.cfg[1]) = <<f.platform, f.version, f.group>>

\* An alias with a group was classified: openSUSE, opensuse, 15 py2.
DockerAliasWitness ==
    /\ Len(classified_matrix) = 1
    /\ parsed_matrix[1].test = <<"l","i","n","u","x","/","o","p","e","n","s","u","s","e","1","5","p","y","2","/","1">>
    /\ classified_matrix[1].job_label = <<"o","p","e","n","S","U","S","E">>
    /\ classified_matrix[1].platform = Some(<<"o","p","e","n","s","u","s","e">>)
    /\ classified_matrix[1].version = Some(<<"1","5"," ","p","y","2">>)
    /\ classified_matrix[1].group = Some(<<"1">>)
    /\ pc = "done"

\* The pairs of an item's leftover mapping whose value is a branch name.
BranchValued(item) ==
    {k \in 1..Len(item.values) : item.values[k][2] \in ansible_branches}

\* The path of an item starts with a branch name.
BranchPrefixed(item) == item.parts # <<>> /\ item.parts[1] \in ansible_branches

\* An item that leaves a key unconsumed.
Unconsumed(item) ==
    \/ \E k \in 1..Len(item.values) : item.values[k][2] \notin ansible_branches
    \/ Cardinality(BranchValued(item)) >= 2
    \/ BranchPrefixed(item) /\ item.values # <<>>

(***************************************************************************)
(* C11  Branch resolution and unused keys.  Every entry accepted by        *)
(* classify_matrix_item has at most one branch source, never both a        *)
(* branch prefix and a branch key/value; its leftover mapping was empty,   *)
(* or held exactly one pair whose value is a branch name while its path    *)
(* did not start with a branch name, and that pair is its branch           *)
(* key/value.  An entry with a leftover key whose value is not a branch    *)
(* name, with two branch-valued keys, or with a branch prefix and any      *)
(* leftover key is never accepted and fails with the unrecognized-key      *)
(* error, whatever its incidental marker and type token are.               *)
(***************************************************************************)
BranchAndUnusedKeys ==
    \A i \in 1..Len(parsed_matrix) :
      LET item == parsed_matrix[i]
      IN /\ i <= Len(classified_matrix)
            => LET c == classified_matrix[i]
               IN /\ ~(c.branch_prefix # None /\ c.branch_kvp # None)
                  /\ \/ item.values = <<>> /\ c.branch_kvp = None
                     \/ /\ Len(item.values) = 1
                        /\ item.values[1][2] \in ansible_branches
                        /\ ~BranchPrefixed(item)
                        /\ c.branch_kvp = Some(item.values[1])
                        /\ c.branch_prefix = None
                  /\ BranchPrefixed(item) <=> c.branch_prefix = Some(item.parts[1])
         /\ Unconsumed(item)
            => /\ i > Len(classified_matrix)
               /\ RejectedAt(i) => error = "UnrecognizedEnvKey"

\* An entry was accepted with the branch of its one leftover pair, and the
\* next, with a branch prefix and a leftover branch pair, was refused for
\* its unused key.
BranchAndUnusedKeysWitness ==
    /\ Len(classified_matrix) = 1
    /\ classified_matrix[1].branch_kvp = Some(<<<<"A","_","R","E","V">>, <<"s","t","a","b","l","e","-","2",".","9">>>>)
    /\ classified_matrix[1].branch_prefix = None
    /\ RejectedAt(2)
    /\ BranchPrefixed(parsed_matrix[2])
    /\ BranchValued(parsed_matrix[2]) = {1}
    /\ error = "UnrecognizedEnvKey"

\* The distinct group values the entries of a stage carry.
GroupValues(stage) ==
    {stage.configs[k].group[1] :
        k \in {j \in 1..Len(stage.configs) : Truthy(stage.configs[j].group)}}

\* The path format of a prefix and a suffix, as the stage record holds it:
\* a format that is the placeholder alone is left out.
FormatOf(prefix, suffix) ==
    LET f == Join(prefix \o <<Placeholder>> \o suffix, "/")
    IN IF f = Placeholder THEN None ELSE Some(f)

(***************************************************************************)
(* C12  Group-suffix rule.  For a compiled stage whose entries carry       *)
(* exactly one distinct group value g, of any length, the path format is   *)
(* the path prefix, the target placeholder and the single element g joined *)
(* by '/', and no groups list is emitted.  With more than one distinct     *)
(* group value the format ends at the placeholder and the groups list      *)
(* holds each distinct value once, in lexical order of the original        *)
(* strings, each coerced by clean_value.  With no group value the format   *)
(* ends at the placeholder and no groups list is emitted.                  *)
(***************************************************************************)
GroupSuffixRule ==
    \A k \in 1..Len(content_stages) :
      LET stage == stages[k]
          out == content_stages[k]
          G == GroupValues(stage)
          prefix == test_prefix_of(stage)
      IN /\ Cardinality(G) = 1
            => /\ out.testFormat = FormatOf(prefix, <<CHOOSE g \in G : TRUE>>)
               /\ out.groups = None
         /\ Cardinality(G) > 1
            => /\ out.testFormat = FormatOf(prefix, <<>>)
               /\ out.groups # None
               /\ Len(out.groups[1]) = Cardinality(G)
               /\ \E ss \in [1..Cardinality(G) -> G] :
                    /\ \A i, j \in 1..Cardinality(G) : i < j => StrLess(ss[i], ss[j])
                    /\ \A i \in 1..Cardinality(G) : out.groups[1][i] = clean_value(ss[i])
         /\ Cardinality(G) = 0
            => /\ out.testFormat = FormatOf(prefix, <<>>)
               /\ out.groups = None

\* p is a leading token sequence of every one of the component tuples.
LeadsAll(p, components) ==
    \A k \in 1..Len(components) :
      /\ Len(p) <= Len(components[k])
      /\ \A n \in 1..Len(p) : components[k][n] = p[n]

NoEmptyToken(p) == \A n \in 1..Len(p) : p[n] # <<>>

\* p is the longest leading token sequence, without an empty token, that
\* all the component tuples share.
LongestShared(p, components) ==
    /\ LeadsAll(p, components)
    /\ NoEmptyToken(p)
    /\ \A n \in (Len(p) + 1)..Len(components[1]) :
         LET q == [m \in 1..n |-> components[1][m]]
         IN ~(LeadsAll(q, components) /\ NoEmptyToken(q))

TestComponentsOf(stage) ==
    [k \in 1..Len(stage.configs) |-> test_components(stage.configs[k])]

NameComponentsOf(stage) ==
    [k \in 1..Len(stage.configs) |-> name_components(stage.configs[k])]

(***************************************************************************)
(* C13  Prefix maximality.  For every compiled stage the path prefix its   *)
(* path format starts with is the longest leading token sequence, with no  *)
(* empty token, that the test_components of all its entries share, and    *)
(* the name prefix of its name format is the same over name_components.    *)
(* The depth of the scans never cuts a prefix short: test_components of a  *)
(* classified entry has at most 5 tokens and name_components at most 3,    *)
(* both below the depth the scans stop at.                                 *)
(***************************************************************************)
PrefixMaximality ==
    /\ \A k \in 1..Len(content_stages) :
         LET stage == stages[k]
             out == content_stages[k]
             tp == test_prefix_of(stage)
             np == name_prefix_of(stage)
             nf == Join(np \o <<Placeholder>>, " ")
         IN /\ LongestShared(tp, TestComponentsOf(stage))
            /\ LongestShared(np, NameComponentsOf(stage))
            /\ out.testFormat = FormatOf(tp, test_suffix_of(stage))
            /\ out.nameFormat = IF nf = Placeholder THEN None ELSE Some(nf)
    /\ \A i \in 1..Len(classified_matrix) :
         /\ Len(test_components(classified_matrix[i])) <= 5
         /\ Len(name_components(classified_matrix[i])) <= 3
    /\ 5 < RangeStop

\* A stage of two entries was compiled whose paths part after units and
\* whose names part after Python.
PrefixMaximalityWitness ==
    /\ Len(content_stages) = 1
    /\ Len(stages[1].configs) = 2
    /\ test_components(stages[1].configs[1]) = <<<<"u","n","i","t","s">>, <<"3",".","1","0">>>>
    /\ test_components(stages[1].configs[2]) = <<<<"u","n","i","t","s">>, <<"3",".","6">>>>
    /\ content_stages[1].testFormat = Some(<<"u","n","i","t","s","/","{","0","}">>)
    /\ content_stages[1].nameFormat = Some(<<"P","y","t","h","o","n"," ","{","0","}">>)

\* A stage name that marks its stage as incidental.
MarkedIncidental(name) == name = <<"I","n","c","i","d","e","n","t","a","l">> \/ StartsWith(name, <<"I","n","c","i","d","e","n","t","a","l"," ">>)

(***************************************************************************)
(* C14  The stage-incidental conflict is unreachable.  No stage label of   *)
(* test_types is 'Incidental' or begins with 'Incidental ', so the stage   *)
(* name of a classified entry is 'Incidental' or starts with 'Incidental ' *)
(* exactly when the entry is incidental; in every state of the aggregator  *)
(* all the entries folded into one stage carry the incidental flag of the  *)
(* stage, and no run ends with the stage-incidental conflict.              *)
(***************************************************************************)
IncidentalConflictUnreachable ==
    /\ \A t \in DOMAIN test_types : ~MarkedIncidental(test_types[t][1])
    /\ \A i \in 1..Len(classified_matrix) :
         classified_matrix[i].incidental
           <=> MarkedIncidental(stage_name(classified_matrix[i]))
    /\ \A k \in 1..Len(stages) :
         /\ stages[k].incidental <=> MarkedIncidental(stages[k].name)
         /\ \A j \in 1..Len(stages[k].configs) :
              stages[k].configs[j].incidental = stages[k].incidental
    /\ error # "StageIncidentalConflict"

\* Two entries of one stage label, one of them incidental, were folded into
\* two stages and the run went on to its end.
IncidentalConflictUnreachableWitness ==
    /\ pc = "done"
    /\ \E a, b \in 1..Len(stages) :
         /\ stages[a].incidental /\ ~stages[b].incidental
         /\ stages[a].name = <<"I","n","c","i","d","e","n","t","a","l">>
         /\ stages[a].configs[1].stage_label = stages[b].configs[1].stage_label

====
